---- MODULE Spec2Model ----
(***************************************************************************)
(* Model of the `mode` crate (src/src/mode.rs, src/src/lib.rs) and of its  *)
(* activity example (src/examples/activity.rs).                            *)
(*                                                                         *)
(* Three automatons, one per ownership variant of the Mode contract (Box,  *)
(* Rc, Arc), run the activity transition logic.  Mode instances live in a  *)
(* heap of reference-counted cells; a handle is a cell index.  A Box is a  *)
(* cell whose count is always 1.                                           *)
(***************************************************************************)
EXTENDS Integers, FiniteSets, Sequences, TLC

\* ------------------------------------------------------------------ bounds
\* Caps on the u32 counters of the modes (update is not issued beyond them).
MaxHours == 9
MaxCalories == 600
MaxRested == 9
\* Largest number of extra handles outside code keeps to one shared mode.
MaxClones == 1
\* Size of the heap of mode instances (three arenas, one per automaton).
NumCells == 9
\* Consecutive next calls counted on one automaton (the count saturates).
MaxStreak == 3

\* --------------------------------------------------------------- constants
\* main's loop: for _age in 18..100.
FirstAge == 18
LastAge == 100

Autos == {"boxed", "rc", "sync"}
SharedAutos == {"rc", "sync"}
Cells == 1..NumCells
\* A handle that has been moved out (no cell).
NoCell == 0
\* ActivityFamily::Input is the unit type: its only value.
Unit == "()"
Inputs == {Unit}

\* ------------------------------------------------------------ mode values
Working(h) == [type |-> "Working", hours_worked |-> h]
Eating(h, c) == [type |-> "Eating", hours_worked |-> h, calories_consumed |-> c]
Sleeping(r) == [type |-> "Sleeping", hours_rested |-> r]
NoVal == [type |-> "none"]

\* The modes an automaton may be constructed with.
InitModes == {Working(0), Working(6), Eating(0, 0), Eating(8, 400), Sleeping(0)}

\* ------------------------------------------------------------------- heap
FreeCell == [val |-> NoVal, strong |-> 0]
Live(h, c) == c \in Cells /\ h[c].strong > 0

\* The cells the allocator uses for the automaton that owns cell c.
Arena(c) == {x \in Cells : x % 3 = c % 3}

\* Box::new / Rc::new / Arc::new: a fresh instance, distinct from every live
\* one, placed in the arena of the mode `near` that constructs it.
Alloc(h, near, v) ==
    LET free == {x \in Arena(near) : h[x].strong = 0}
        c == CHOOSE x \in free : \A y \in free : x <= y
    IN [heap |-> [h EXCEPT ![c] = [val |-> v, strong |-> 1]], cell |-> c]

\* Drop of one handle: the instance is destroyed with its last handle.
Release(h, c) ==
    IF h[c].strong = 1 THEN [h EXCEPT ![c] = FreeCell]
    ELSE [h EXCEPT ![c].strong = @ - 1]

\* ------------------------------------------------------- Activity::update
Working_update(m) == [m EXCEPT !.hours_worked = @ + 1]
\* An update of Eating that also counts the meal as an hour worked.
Eating_update_hours(m) ==
    [m EXCEPT !.calories_consumed = @ + 100, !.hours_worked = @ + 1]

\* An update that switches mode itself once enough has been eaten.
Eating_update_switch(m) ==
    IF m.calories_consumed + 100 >= 500 THEN Working(m.hours_worked)
    ELSE [m EXCEPT !.calories_consumed = @ + 100]

Eating_update(m) == [m EXCEPT !.calories_consumed = @ + 100]
Sleeping_update(m) == [m EXCEPT !.hours_rested = @ + 1]

\* Dynamic dispatch of update on the concrete type behind dyn Activity.
Activity_update(m) ==
    CASE m.type = "Working" -> Working_update(m)
      [] m.type = "Eating" -> Eating_update(m)
      [] m.type = "Sleeping" -> Sleeping_update(m)
      [] OTHER -> m

\* The counter update would increment is below its cap.
CanUpdate(m) ==
    CASE m.type = "Working" -> m.hours_worked < MaxHours
      [] m.type = "Eating" -> m.calories_consumed + 100 <= MaxCalories
      [] m.type = "Sleeping" -> m.hours_rested < MaxRested
      [] OTHER -> FALSE

\* ----------------------------------------------------------- Mode::swap
\* Each swap consumes the handle `self` and returns the Output handle: a
\* new instance (self is dropped when swap returns) or self itself.
\* Working::swap keeping the outgoing instance alive beside the new one.
Working_swap_leak(h, self, input) ==
    LET m == h[self].val IN
    IF m.hours_worked = 4 \/ m.hours_worked >= 8
    THEN LET a == Alloc(h, self, Eating(m.hours_worked, 0))
         IN [heap |-> a.heap, out |-> a.cell]
    ELSE [heap |-> h, out |-> self]

\* Working::swap without the lunch break: it leaves only for dinner.
Working_swap_dinner_only(h, self, input) ==
    LET m == h[self].val IN
    IF m.hours_worked >= 8
    THEN LET a == Alloc(h, self, Eating(m.hours_worked, 0))
         IN [heap |-> Release(a.heap, self), out |-> a.cell]
    ELSE [heap |-> h, out |-> self]

\* Working::swap that works one hour of overtime before dinner.
Working_swap_overtime(h, self, input) ==
    LET m == h[self].val IN
    IF m.hours_worked = 4 \/ m.hours_worked >= 9
    THEN LET a == Alloc(h, self, Eating(m.hours_worked, 0))
         IN [heap |-> Release(a.heap, self), out |-> a.cell]
    ELSE [heap |-> h, out |-> self]

\* Working::swap that takes its lunch break an hour late.
Working_swap_late_lunch(h, self, input) ==
    LET m == h[self].val IN
    IF m.hours_worked = 5 \/ m.hours_worked >= 8
    THEN LET a == Alloc(h, self, Eating(m.hours_worked, 0))
         IN [heap |-> Release(a.heap, self), out |-> a.cell]
    ELSE [heap |-> h, out |-> self]

Working_swap(h, self, input) ==
    LET m == h[self].val IN
    IF m.hours_worked = 4 \/ m.hours_worked >= 8
    THEN LET a == Alloc(h, self, Eating(m.hours_worked, 0))
         IN [heap |-> Release(a.heap, self), out |-> a.cell]
    ELSE [heap |-> h, out |-> self]

\* Eating::swap building the next Working from scratch.
Eating_swap_reset(h, self, input) ==
    LET m == h[self].val IN
    IF m.calories_consumed >= 500
    THEN IF m.hours_worked >= 8
         THEN LET a == Alloc(h, self, Sleeping(0))
              IN [heap |-> Release(a.heap, self), out |-> a.cell]
         ELSE LET a == Alloc(h, self, Working(0))
              IN [heap |-> Release(a.heap, self), out |-> a.cell]
    ELSE [heap |-> h, out |-> self]

\* Eating::swap that leaves the table one helping early.
Eating_swap_early(h, self, input) ==
    LET m == h[self].val IN
    IF m.calories_consumed >= 400
    THEN IF m.hours_worked >= 8
         THEN LET a == Alloc(h, self, Sleeping(0))
              IN [heap |-> Release(a.heap, self), out |-> a.cell]
         ELSE LET a == Alloc(h, self, Working(m.hours_worked))
              IN [heap |-> Release(a.heap, self), out |-> a.cell]
    ELSE [heap |-> h, out |-> self]

Eating_swap(h, self, input) ==
    LET m == h[self].val IN
    IF m.calories_consumed >= 500
    THEN IF m.hours_worked >= 8
         THEN LET a == Alloc(h, self, Sleeping(0))
              IN [heap |-> Release(a.heap, self), out |-> a.cell]
         ELSE LET a == Alloc(h, self, Working(m.hours_worked))
              IN [heap |-> Release(a.heap, self), out |-> a.cell]
    ELSE [heap |-> h, out |-> self]

\* Sleeping::swap that needs more than eight hours of rest.
Sleeping_swap_strict(h, self, input) ==
    LET m == h[self].val IN
    IF m.hours_rested > 8
    THEN LET a == Alloc(h, self, Eating(0, 0))
         IN [heap |-> Release(a.heap, self), out |-> a.cell]
    ELSE [heap |-> h, out |-> self]

\* Sleeping::swap that skips breakfast and goes straight to work.
Sleeping_swap_to_work(h, self, input) ==
    LET m == h[self].val IN
    IF m.hours_rested >= 8
    THEN LET a == Alloc(h, self, Working(0))
         IN [heap |-> Release(a.heap, self), out |-> a.cell]
    ELSE [heap |-> h, out |-> self]

Sleeping_swap(h, self, input) ==
    LET m == h[self].val IN
    IF m.hours_rested >= 8
    THEN LET a == Alloc(h, self, Eating(0, 0))
         IN [heap |-> Release(a.heap, self), out |-> a.cell]
    ELSE [heap |-> h, out |-> self]

\* Dynamic dispatch of swap on the concrete type behind dyn Activity.
Activity_swap(h, self, input) ==
    CASE h[self].val.type = "Working" -> Working_swap(h, self, input)
      [] h[self].val.type = "Eating" -> Eating_swap(h, self, input)
      [] h[self].val.type = "Sleeping" -> Sleeping_swap(h, self, input)
      [] OTHER -> [heap |-> h, out |-> self]

\* The ownership-specific contracts: one invocation of the mode's own swap.
boxed_Mode_swap(h, self, input) ==
    LET r == Activity_swap(h, self, input) IN [heap |-> r.heap, out |-> r.out, calls |-> 1]

rc_Mode_swap(h, self, input) ==
    LET r == Activity_swap(h, self, input) IN [heap |-> r.heap, out |-> r.out, calls |-> 1]

sync_Mode_swap(h, self, input) ==
    LET r == Activity_swap(h, self, input) IN [heap |-> r.heap, out |-> r.out, calls |-> 1]

\* A Box adapter that hands back a newly built default mode in place of the
\* Output of the mode's swap.
Box_swap_rebuild(h, self, input) ==
    LET r == boxed_Mode_swap(h, self, input)
        n == Alloc(r.heap, r.out, Working(0))
    IN [heap |-> Release(n.heap, r.out), out |-> n.cell, calls |-> r.calls]

\* The generic adapters: impl crate::Mode for Box<T>, Rc<T>, Arc<T>.
Box_swap(h, self, input) == boxed_Mode_swap(h, self, input)

\* An Rc adapter that keeps the mode it is given when other handles exist.
Rc_swap_guarded(h, self, input) ==
    IF h[self].strong > 1 THEN [heap |-> h, out |-> self, calls |-> 0]
    ELSE rc_Mode_swap(h, self, input)

\* An Rc adapter that hands its receiver back without forwarding.
Rc_swap_noforward(h, self, input) == [heap |-> h, out |-> self, calls |-> 0]

Rc_swap(h, self, input) == rc_Mode_swap(h, self, input)

\* An Arc adapter that keeps the mode it is given when other handles exist.
Arc_swap_guarded(h, self, input) ==
    IF h[self].strong > 1 THEN [heap |-> h, out |-> self, calls |-> 0]
    ELSE sync_Mode_swap(h, self, input)

\* An Arc adapter that forwards again on the Output of the mode's swap.
Arc_swap_twice(h, self, input) ==
    LET r == sync_Mode_swap(h, self, input)
        q == sync_Mode_swap(r.heap, r.out, input)
    IN [heap |-> q.heap, out |-> q.out, calls |-> r.calls + q.calls]

Arc_swap(h, self, input) == sync_Mode_swap(h, self, input)

\* The uniform contract the automaton is written against.
crate_Mode_swap(a, h, self, input) ==
    CASE a \in {"boxed", "boxed2"} -> Box_swap(h, self, input)
      [] a = "rc" -> Rc_swap(h, self, input)
      [] a = "sync" -> Arc_swap(h, self, input)

\* ------------------------------------------------------------------ state
VARIABLES
    heap,       \* Cells -> [val, strong]: the mode instances
    local,      \* Autos -> the caller's handle before with_mode consumes it
    automaton,  \* Autos -> the automaton's mode field (NoCell while taken)
    inflight,   \* Autos -> [mode, input]: what next holds between take and install
    pc,         \* Autos -> "start" | "idle" | "swapping"
    pending,    \* Autos -> the operation the driver has issued and not yet run
    held,       \* Cells -> number of handles outside code holds to the cell
    given,      \* Autos -> the mode value with_mode is given, kept until the first next
    hist,       \* Autos -> "new" | "updated" | "nexted": calls since with_mode
    last,       \* the latest automaton operation, with what it saw and produced
    anchor,     \* Autos -> the mode value after the latest with_mode or update
    streak,     \* Autos -> number of next calls completed since then (saturating)
    age         \* main's loop variable _age (FirstAge - 1 before the loop)

vars == <<heap, local, automaton, inflight, pc, pending, held, given, hist, last,
          anchor, streak, age>>

NoInflight == [mode |-> NoCell, input |-> Unit]
NoLast == [op |-> "none", auto |-> "none", recv |-> NoCell, before |-> NoVal,
           strong |-> 0, out |-> NoCell, after |-> NoVal, calls |-> 0]

InitCell(a) == CASE a = "boxed" -> 1 [] a = "rc" -> 2 [] a = "sync" -> 3 [] a = "boxed2" -> 4

Init ==
    /\ \E v \in InitModes :
        /\ given = [a \in Autos |-> v]
        /\ anchor = [a \in Autos |-> v]
        /\ heap = [c \in Cells |-> IF c \in {InitCell(a) : a \in Autos}
                                   THEN [val |-> v, strong |-> 1] ELSE FreeCell]
    /\ local = [a \in Autos |-> InitCell(a)]
    /\ automaton = [a \in Autos |-> NoCell]
    /\ inflight = [a \in Autos |-> NoInflight]
    /\ pc = [a \in Autos |-> "start"]
    /\ pending = [a \in Autos |-> "none"]
    /\ held = [c \in Cells |-> 0]
    /\ hist = [a \in Autos |-> "new"]
    /\ last = NoLast
    /\ streak = [a \in Autos |-> 0]
    /\ age = FirstAge - 1

\* The cell of the mode the automaton is in: its field, or the mode next holds.
Current(a) == IF pc[a] = "swapping" THEN inflight[a].mode ELSE automaton[a]
ModeOf(a) == IF Current(a) \in Cells THEN heap[Current(a)].val ELSE NoVal

\* A borrow granted while a call on the automaton is still in progress.
Borrowable_reentrant(a) == pc[a] # "start"

\* The automaton can be borrowed (&mut): no call on it is in progress.
Borrowable(a) == pc[a] = "idle"

\* The driver serves the automatons in a fixed order: a is served once every
\* automaton before it has completed the operation.
Turn(a) == \A b \in DOMAIN pc : InitCell(b) < InitCell(a) =>
                 pc[b] = "idle" /\ pending[b] = "none"

\* ---------------------------------------------------------------- actions
\* Outside code clones the shared handle before giving it to with_mode.
CloneHandle(a) ==
    /\ a \in SharedAutos
    /\ pc[a] = "start"
    /\ held[local[a]] < MaxClones
    /\ heap' = [heap EXCEPT ![local[a]].strong = @ + 1]
    /\ held' = [held EXCEPT ![local[a]] = @ + 1]
    /\ UNCHANGED <<local, automaton, inflight, pc, pending, given, hist, last, anchor, streak, age>>

\* Outside code drops one of its handles.
DropClone(c) ==
    /\ held[c] > 0
    /\ heap' = Release(heap, c)
    /\ held' = [held EXCEPT ![c] = @ - 1]
    /\ UNCHANGED <<local, automaton, inflight, pc, pending, given, hist, last, anchor, streak, age>>

\* A call that leaves the caller's variable usable after passing it by value.
MovedOut_copy(l, s) == l

\* The caller's variables after the handle in variable s is passed by value:
\* it has moved, the variable can no longer be used.
MovedOut(l, s) == [l EXCEPT ![s] = NoCell]

\* A with_mode that builds the automaton around a mode of its own and drops
\* the one it is given.
WithMode_fresh(a) ==
    /\ pc[a] = "start"
    /\ Turn(a)
    /\ LET r == Alloc(heap, local[a], Working(0)) IN
        /\ heap' = Release(r.heap, local[a])
        /\ automaton' = [automaton EXCEPT ![a] = r.cell]
        /\ last' = [op |-> "with_mode", auto |-> a, recv |-> local[a],
                    before |-> heap[local[a]].val, strong |-> heap[local[a]].strong,
                    out |-> r.cell, after |-> Working(0), calls |-> 0]
    /\ local' = [local EXCEPT ![a] = NoCell]
    /\ pc' = [pc EXCEPT ![a] = "idle"]
    /\ UNCHANGED <<inflight, pending, held, given, hist, anchor, streak, age>>

\* Automaton::with_mode(mode): the handle moves into the automaton.
WithMode(a) ==
    /\ pc[a] = "start"
    /\ Turn(a)
    /\ automaton' = [automaton EXCEPT ![a] = local[a]]
    /\ local' = MovedOut(local, a)
    /\ pc' = [pc EXCEPT ![a] = "idle"]
    /\ last' = [op |-> "with_mode", auto |-> a, recv |-> local[a],
                before |-> heap[local[a]].val, strong |-> heap[local[a]].strong,
                out |-> local[a], after |-> heap[local[a]].val, calls |-> 0]
    /\ UNCHANGED <<heap, inflight, pending, held, given, hist, anchor, streak, age>>

\* The driver issues the same operation to every automaton.
Drive(o) ==
    /\ \A a \in Autos : pc[a] = "idle" /\ pending[a] = "none"
    /\ o = "update" => \A a \in Autos : CanUpdate(ModeOf(a))
    /\ pending' = [a \in Autos |-> o]
    /\ UNCHANGED <<heap, local, automaton, inflight, pc, held, given, hist, last, anchor, streak, age>>

\* person.update(): the Base call, forwarded to the current mode.
Update(a) ==
    /\ pending[a] = "update"
    /\ Turn(a)
    /\ Borrowable(a)
    /\ heap' = [heap EXCEPT ![automaton[a]].val = Activity_update(@)]
    /\ pending' = [pending EXCEPT ![a] = "none"]
    /\ hist' = [hist EXCEPT ![a] = IF @ = "new" THEN "updated" ELSE @]
    /\ last' = [op |-> "update", auto |-> a, recv |-> automaton[a],
                before |-> ModeOf(a), strong |-> heap[automaton[a]].strong,
                out |-> automaton[a], after |-> Activity_update(ModeOf(a)), calls |-> 0]
    /\ anchor' = [anchor EXCEPT ![a] = Activity_update(ModeOf(a))]
    /\ streak' = [streak EXCEPT ![a] = 0]
    /\ UNCHANGED <<local, automaton, inflight, pc, held, given, age>>

\* Automaton::next, first half: the mode is taken out of the field.
NextBegin(a, input) ==
    /\ pending[a] = "next"
    /\ Turn(a)
    /\ Borrowable(a)
    /\ inflight' = [inflight EXCEPT ![a] = [mode |-> automaton[a], input |-> input]]
    /\ automaton' = [automaton EXCEPT ![a] = NoCell]
    /\ pc' = [pc EXCEPT ![a] = "swapping"]
    /\ hist' = [hist EXCEPT ![a] = "nexted"]
    /\ given' = [given EXCEPT ![a] = NoVal]
    /\ UNCHANGED <<heap, local, pending, held, last, anchor, streak, age>>

\* Automaton::next, second half: swap consumes the mode, the Output is installed.
NextEnd(a) ==
    /\ pc[a] = "swapping"
    /\ LET r == crate_Mode_swap(a, heap, inflight[a].mode, inflight[a].input) IN
        /\ heap' = r.heap
        /\ automaton' = [automaton EXCEPT ![a] = r.out]
        /\ last' = [op |-> "next", auto |-> a, recv |-> inflight[a].mode,
                    before |-> heap[inflight[a].mode].val,
                    strong |-> heap[inflight[a].mode].strong,
                    out |-> r.out, after |-> r.heap[r.out].val, calls |-> r.calls]
    /\ inflight' = [inflight EXCEPT ![a] = NoInflight]
    /\ pc' = [pc EXCEPT ![a] = "idle"]
    /\ pending' = [pending EXCEPT ![a] = "none"]
    /\ streak' = [streak EXCEPT ![a] = IF @ < MaxStreak THEN @ + 1 ELSE @]
    /\ UNCHANGED <<local, held, given, hist, anchor, age>>

Next ==
    \/ \E a \in Autos : CloneHandle(a)
    \/ \E c \in Cells : DropClone(c)
    \/ \E a \in Autos : WithMode(a)
    \/ \E o \in {"update", "next"} : Drive(o)
    \/ \E a \in Autos : Update(a)
    \/ \E a \in Autos, i \in Inputs : NextBegin(a, i)
    \/ \E a \in Autos : NextEnd(a)

Spec == Init /\ [][Next]_vars

\* ------------------------------------------------------- the main program
\* main of the activity example: one automaton, person, with exclusive
\* ownership of its mode.
MainAutos == {"boxed"}

\* The state in which the automatons of D are about to be built, each from a
\* mode of value v of its own.
InitFor(D, v) ==
    /\ given = [a \in D |-> v]
    /\ anchor = [a \in D |-> v]
    /\ heap = [c \in Cells |-> IF c \in {InitCell(a) : a \in D}
                               THEN [val |-> v, strong |-> 1] ELSE FreeCell]
    /\ local = [a \in D |-> InitCell(a)]
    /\ automaton = [a \in D |-> NoCell]
    /\ inflight = [a \in D |-> NoInflight]
    /\ pc = [a \in D |-> "start"]
    /\ pending = [a \in D |-> "none"]
    /\ held = [c \in Cells |-> 0]
    /\ hist = [a \in D |-> "new"]
    /\ last = NoLast
    /\ streak = [a \in D |-> 0]
    /\ age = FirstAge - 1

\* let mode = Box::new(Working { hours_worked: 0 }).
MainInit == InitFor(MainAutos, Working(0))

\* The loop body: person.update() at the start of an iteration, then
\* Automaton::next(&mut person).
MainDrive ==
    /\ pc["boxed"] = "idle" /\ pending["boxed"] = "none"
    /\ IF last.op = "update"
       THEN pending' = [pending EXCEPT !["boxed"] = "next"] /\ age' = age
       ELSE /\ age + 1 < LastAge
            /\ age' = age + 1
            /\ pending' = [pending EXCEPT !["boxed"] = "update"]
    /\ UNCHANGED <<heap, local, automaton, inflight, pc, held, given, hist, last,
                   anchor, streak>>

\* The loop is over: main returns and person is dropped with its mode.
MainExit ==
    /\ pc["boxed"] = "idle" /\ pending["boxed"] = "none"
    /\ last.op # "update"
    /\ age + 1 >= LastAge
    /\ heap' = Release(heap, automaton["boxed"])
    /\ automaton' = [automaton EXCEPT !["boxed"] = NoCell]
    /\ pc' = [pc EXCEPT !["boxed"] = "done"]
    /\ UNCHANGED <<local, inflight, pending, held, given, hist, last, anchor, streak, age>>

MainNext ==
    \/ \E a \in MainAutos : WithMode(a)
    \/ MainDrive
    \/ \E a \in MainAutos : Update(a)
    \/ \E a \in MainAutos, i \in Inputs : NextBegin(a, i)
    \/ \E a \in MainAutos : NextEnd(a)
    \/ MainExit

SpecMain == MainInit /\ [][MainNext]_vars

\* The same loop body run without end (_age stops counting at LastAge - 1).
ForeverDrive ==
    /\ pc["boxed"] = "idle" /\ pending["boxed"] = "none"
    /\ IF last.op = "update"
       THEN pending' = [pending EXCEPT !["boxed"] = "next"] /\ age' = age
       ELSE /\ age' = IF age + 1 < LastAge THEN age + 1 ELSE age
            /\ pending' = [pending EXCEPT !["boxed"] = "update"]
    /\ UNCHANGED <<heap, local, automaton, inflight, pc, held, given, hist, last,
                   anchor, streak>>

ForeverNext ==
    \/ \E a \in MainAutos : WithMode(a)
    \/ ForeverDrive
    \/ \E a \in MainAutos : Update(a)
    \/ \E a \in MainAutos, i \in Inputs : NextBegin(a, i)
    \/ \E a \in MainAutos : NextEnd(a)

\* A running program always takes its next step.
SpecForever == MainInit /\ [][ForeverNext]_vars /\ WF_vars(ForeverNext)

\* --------------------------------------------- two exclusive automatons
\* A program that builds two automatons with exclusive ownership from the
\* two modes it has boxed, in either assignment, and drives both.
PairAutos == {"boxed", "boxed2"}

PairInit == \E v \in InitModes : InitFor(PairAutos, v)

\* Automaton::with_mode(x) for automaton a, x being the caller's variable s;
\* a variable whose value has moved cannot be named.
PairWithMode(a, s) ==
    /\ pc[a] = "start"
    /\ local[s] # NoCell
    /\ automaton' = [automaton EXCEPT ![a] = local[s]]
    /\ local' = MovedOut(local, s)
    /\ pc' = [pc EXCEPT ![a] = "idle"]
    /\ last' = [op |-> "with_mode", auto |-> a, recv |-> local[s],
                before |-> heap[local[s]].val, strong |-> heap[local[s]].strong,
                out |-> local[s], after |-> heap[local[s]].val, calls |-> 0]
    /\ UNCHANGED <<heap, inflight, pending, held, given, hist, anchor, streak, age>>

\* The program issues the same operation to both automatons.
PairDrive(o) ==
    /\ \A a \in PairAutos : pc[a] = "idle" /\ pending[a] = "none"
    /\ o = "update" => \A a \in PairAutos : CanUpdate(ModeOf(a))
    /\ pending' = [a \in PairAutos |-> o]
    /\ UNCHANGED <<heap, local, automaton, inflight, pc, held, given, hist, last,
                   anchor, streak, age>>

PairNext ==
    \/ \E a \in PairAutos, s \in PairAutos : PairWithMode(a, s)
    \/ \E o \in {"update", "next"} : PairDrive(o)
    \/ \E a \in PairAutos : Update(a)
    \/ \E a \in PairAutos, i \in Inputs : NextBegin(a, i)
    \/ \E a \in PairAutos : NextEnd(a)

SpecPair == PairInit /\ [][PairNext]_vars

\* ------------------------------------------------------------------ claims
\* The handles an automaton (or the caller about to build it) owns.
Handles(a) == {local[a], automaton[a], inflight[a].mode} \ {NoCell}

\* The live mode instances in the arena of automaton a.
LiveIn(a) == {c \in Arena(InitCell(a)) : heap[c].strong > 0}

OneLiveModeState ==
    \A a \in Autos :
        /\ Cardinality(Handles(a)) = 1
        /\ \A c \in Handles(a) : Live(heap, c)
        /\ pc[a] = "idle" => automaton[a] # NoCell
        /\ \A c \in Arena(InitCell(a)) :
              heap[c].strong = held[c] + (IF c \in Handles(a) THEN 1 ELSE 0)
        /\ a = "boxed" => Cardinality(LiveIn(a)) = 1

OneLiveModeStep ==
    LET a == "boxed" IN
    /\ NextEnd(a) => (automaton'[a] # inflight[a].mode <=> ~Live(heap', inflight[a].mode))
    /\ \A c \in Arena(InitCell(a)) :
          Live(heap, c) /\ ~Live(heap', c) => NextEnd(a) /\ inflight[a].mode = c /\ automaton'[a] # c

\* C1: every automaton owns exactly one live mode instance in every state and
\* its field is never empty when it can be observed; under exclusive ownership
\* exactly one instance is alive, and the outgoing instance is destroyed
\* exactly when a next replaces it.
ExactlyOneLiveMode == []OneLiveModeState /\ [][OneLiveModeStep]_vars

\* A next of the exclusive automaton has replaced its mode and the outgoing
\* instance is gone.
ExactlyOneLiveModeWitness ==
    /\ last.op = "next" /\ last.auto = "boxed"
    /\ last.out # last.recv
    /\ ~Live(heap, last.recv)
    /\ automaton["boxed"] = last.out

\* The automaton's field holds a complete, live mode.
Complete(a) == pc[a] = "idle" /\ automaton[a] \in Cells /\ heap[automaton[a]].strong > 0

AtomicNextStep ==
    \A a \in Autos :
        /\ (Update(a) \/ \E i \in Inputs : NextBegin(a, i)) => Complete(a)
        /\ pc[a] = "swapping"
             /\ (\/ automaton'[a] # automaton[a]
                 \/ inflight'[a] # inflight[a]
                 \/ pc'[a] # pc[a]
                 \/ heap'[inflight[a].mode].val # heap[inflight[a].mode].val)
           => NextEnd(a)
        /\ NextEnd(a) => Complete(a)' /\ inflight'[a] = NoInflight

\* C2: every operation on an automaton (a Base call or the start of a next)
\* finds a complete mode in its field; between the take and the install of a
\* next nothing but that next acts on the automaton, and the next ends with a
\* complete mode installed.
AtomicNext == [][AtomicNextStep]_vars

\* A next is between its take and its install (the field is empty, the mode
\* about to transition is held by next) while the other automatons wait.
AtomicNextWitness ==
    /\ pc["boxed"] = "swapping" /\ automaton["boxed"] = NoCell
    /\ heap[inflight["boxed"].mode].val = Working(4)
    /\ pending["rc"] = "next" /\ pc["rc"] = "idle"

InstallsSwapOutputStep ==
    \A a \in Autos :
        /\ \A i \in Inputs :
              NextBegin(a, i) => inflight'[a] = [mode |-> automaton[a], input |-> i]
                                 /\ heap' = heap
        /\ NextEnd(a) =>
              LET r == Activity_swap(heap, inflight[a].mode, inflight[a].input)
              IN automaton'[a] = r.out /\ heap' = r.heap

NextSoleMutatorStep ==
    \A a \in Autos :
        /\ Update(a) => Current(a)' = Current(a) /\ ModeOf(a)'.type = ModeOf(a).type
        /\ pc[a] # "start"
             /\ (Current(a)' # Current(a) \/ ModeOf(a)'.type # ModeOf(a).type)
           => NextEnd(a)

\* C4: an update leaves the automaton holding the same instance of the same
\* concrete mode type, whatever its field values; once the automaton is
\* built, the instance or the type of its mode changes only in a next.
NextSoleMutator == [][NextSoleMutatorStep]_vars

\* An update has brought Eating to its exit threshold, and the automaton is
\* still in Eating.
NextSoleMutatorWitness ==
    /\ last.op = "update" /\ last.auto = "boxed"
    /\ last.before = Eating(4, 400) /\ last.after = Eating(4, 500)
    /\ ModeOf("boxed") = Eating(4, 500)

UpdateForwardedStep ==
    \A a \in Autos :
        Update(a) =>
            LET c == automaton[a]
                m == heap[c].val
            IN /\ m.type = "Working" =>
                    heap'[c].val = [type |-> "Working", hours_worked |-> m.hours_worked + 1]
               /\ m.type = "Eating" =>
                    heap'[c].val = [type |-> "Eating", hours_worked |-> m.hours_worked,
                                    calories_consumed |-> m.calories_consumed + 100]
               /\ m.type = "Sleeping" =>
                    heap'[c].val = [type |-> "Sleeping", hours_rested |-> m.hours_rested + 1]
               /\ m.type \in {"Working", "Eating", "Sleeping"}
               /\ heap'[c].strong = heap[c].strong
               /\ \A d \in Cells \ {c} : heap'[d] = heap[d]

\* C6: update on an automaton acts on its current mode only: it adds 1 to
\* hours_worked of Working, 100 to calories_consumed of Eating, 1 to
\* hours_rested of Sleeping, and changes no other field and no other instance.
UpdateForwarded == [][UpdateForwardedStep]_vars

\* update on the exclusive automaton has raised the calories of Eating and
\* left its hours_worked alone.
UpdateForwardedWitness ==
    /\ last.op = "update" /\ last.auto = "boxed"
    /\ last.before = Eating(8, 100) /\ last.after = Eating(8, 200)
    /\ ModeOf("boxed") = Eating(8, 200)
    /\ ModeOf("rc") = Eating(8, 100)

\* The swap of a mode with value m returns an equivalent instance of itself.
SelfSwap(m) ==
    LET h0 == [c \in Cells |-> IF c = 1 THEN [val |-> m, strong |-> 1] ELSE FreeCell]
        r == Activity_swap(h0, 1, Unit)
    IN r.heap[r.out].val = m

\* C7: when the mode an automaton had after its latest with_mode or update is
\* one whose swap returns an equivalent instance of itself, then after every
\* number of consecutive next calls the automaton is in a mode of that very
\* value, and a Base call on it gives what it would have given before.
SteadyModeStays ==
    \A a \in Autos :
        pc[a] # "start" /\ SelfSwap(anchor[a]) =>
            /\ ModeOf(a) = anchor[a]
            /\ Activity_update(ModeOf(a)) = Activity_update(anchor[a])

\* MaxStreak consecutive next calls have left the exclusive automaton in
\* Working(2), the mode it had before them.
SteadyModeStaysWitness ==
    /\ streak["boxed"] = MaxStreak /\ pc["boxed"] = "idle"
    /\ last.op = "next" /\ last.auto = "boxed"
    /\ anchor["boxed"] = Working(2) /\ ModeOf("boxed") = Working(2)

MoveNotCopyStep ==
    \A a \in Autos :
        NextEnd(a) =>
            LET c == inflight[a].mode
                m == heap[c].val
                n == heap'[automaton'[a]].val
            IN /\ m.type = "Working" /\ n.type = "Eating" => n.hours_worked = m.hours_worked
               /\ m.type = "Eating" /\ n.type = "Working" => n.hours_worked = m.hours_worked
               /\ a = "boxed" /\ automaton'[a] # c =>
                     /\ ~Live(heap', c)
                     /\ {x \in Arena(c) : Live(heap', x)} = {automaton'[a]}

\* C8: in every next, an Eating entered from Working has the hours_worked that
\* Working had, and a Working entered from Eating has the hours_worked that
\* Eating carried; under exclusive ownership the outgoing mode no longer
\* exists afterwards, so the new mode is the only one holding the value.
MoveNotCopy == [][MoveNotCopyStep]_vars

\* A next of the exclusive automaton has moved hours_worked = 4 from Eating
\* into a new Working, and the Eating instance is gone.
MoveNotCopyWitness ==
    /\ last.op = "next" /\ last.auto = "boxed"
    /\ last.before = Eating(4, 500) /\ last.after = Working(4)
    /\ last.out # last.recv /\ ~Live(heap, last.recv)
    /\ ModeOf("boxed") = Working(4)

\* What a caller observes of automaton a: the value of its mode (before
\* with_mode, of the mode it is about to be given).
Obs(a) == IF pc[a] = "start" THEN heap[local[a]].val ELSE ModeOf(a)

SoleSwapValue(m) ==
    LET h0 == [c \in Cells |-> IF c = 1 THEN [val |-> m, strong |-> 1] ELSE FreeCell]
        r == Activity_swap(h0, 1, Unit)
    IN r.heap[r.out].val

SharedSwapNoOpStep ==
    \A a \in SharedAutos :
        NextEnd(a) /\ heap[inflight[a].mode].strong > 1 =>
            automaton'[a] = inflight[a].mode /\ heap' = heap

SharedSwapForwardedStep ==
    \A a \in SharedAutos :
        NextEnd(a) =>
            LET c == inflight[a].mode
                m == heap[c].val
                o == automaton'[a]
            IN /\ heap'[o].val = SoleSwapValue(m)
               /\ o = c <=> SoleSwapValue(m) = m
               /\ o = c => heap' = heap
               /\ o # c /\ heap[c].strong > 1 =>
                     heap'[c] = [val |-> m, strong |-> heap[c].strong - 1]
               /\ o # c /\ heap[c].strong = 1 => ~Live(heap', c)

Cycle == age - FirstAge + 1

\* Iteration k of main's loop has just completed its next.
AfterCycle(k) ==
    /\ Cycle = k
    /\ last.op = "next" /\ pc["boxed"] = "idle" /\ pending["boxed"] = "none"

\* C11: from Working(0), after each of the cycles 1 to 3 of update then next
\* the automaton is in Working (with 1, 2, 3 hours), after cycle 4 in
\* Eating(4, 0), after cycles 5 to 8 still in Eating (with 100 to 400
\* calories), and the next of cycle 9 finds Eating(4, 500) and installs
\* Working(4).
LunchLeg ==
    /\ \A k \in 1..3 : AfterCycle(k) => ModeOf("boxed") = Working(k)
    /\ AfterCycle(4) => last.before = Working(4) /\ ModeOf("boxed") = Eating(4, 0)
    /\ \A k \in 5..8 : AfterCycle(k) => ModeOf("boxed") = Eating(4, 100 * (k - 4))
    /\ AfterCycle(9) => last.before = Eating(4, 500) /\ ModeOf("boxed") = Working(4)

\* Cycle 9 has ended with the automaton back in Working(4).
LunchLegWitness == AfterCycle(9) /\ ModeOf("boxed") = Working(4)

\* C12: further along main's loop, hours_worked reaches 8 in cycle 13 and the
\* automaton enters Eating(8, 0); the next of cycle 18 finds Eating(8, 500)
\* and installs Sleeping(0), not Working; the automaton is in Sleeping after
\* cycles 18 to 25 and exactly 8 cycles after cycle 18, after cycle 26, it is
\* in Eating(0, 0).
DinnerAndSleepLeg ==
    /\ \A k \in 10..12 : AfterCycle(k) => ModeOf("boxed") = Working(k - 5)
    /\ AfterCycle(13) => last.before = Working(8) /\ ModeOf("boxed") = Eating(8, 0)
    /\ \A k \in 14..17 : AfterCycle(k) => ModeOf("boxed") = Eating(8, 100 * (k - 13))
    /\ AfterCycle(18) => last.before = Eating(8, 500) /\ ModeOf("boxed") = Sleeping(0)
    /\ \A k \in 19..25 : AfterCycle(k) => ModeOf("boxed") = Sleeping(k - 18)
    /\ AfterCycle(26) => last.before = Sleeping(8) /\ ModeOf("boxed") = Eating(0, 0)
    /\ last.op = "next" /\ last.before.type = "Eating" /\ last.after.type # "Eating" =>
          (last.before.hours_worked >= 8 <=> last.after = Sleeping(0))

\* Cycle 26 has ended: eight cycles after entering Sleeping(0) the automaton
\* is in Eating(0, 0).
DinnerAndSleepLegWitness ==
    AfterCycle(26) /\ last.before = Sleeping(8) /\ ModeOf("boxed") = Eating(0, 0)

\* C13: under exclusive ownership no mode instance is the mode of two
\* automatons at once, nor the mode of one while the caller or the other
\* still holds a handle to it: each instance in use has exactly one handle.
NoAliasing ==
    \A a, b \in PairAutos :
        /\ a # b => Handles(a) \cap ({Current(b)} \cup Handles(b)) = {}
        /\ Current(a) # NoCell => heap[Current(a)].strong = 1
        /\ a # b /\ Current(a) # NoCell => Current(a) # Current(b)

\* Both automatons are built, each from the mode boxed for the other, and
\* both have made a transition; their modes are distinct instances.
NoAliasingWitness ==
    /\ \A a \in PairAutos : pc[a] = "idle" /\ ModeOf(a) = Eating(4, 0)
    /\ last.op = "next" /\ last.auto = "boxed2" /\ last.out # last.recv
    /\ last.recv = InitCell("boxed")
    /\ automaton["boxed"] # automaton["boxed2"]

\* The ownership-specific swap of the mode wrapped by automaton a's handle.
WrappedSwap(a, h, self, input) ==
    CASE a = "boxed" -> boxed_Mode_swap(h, self, input)
      [] a = "rc" -> rc_Mode_swap(h, self, input)
      [] a = "sync" -> sync_Mode_swap(h, self, input)

ForwardsOnceStep ==
    \A a \in Autos :
        NextEnd(a) =>
            LET r == WrappedSwap(a, heap, inflight[a].mode, inflight[a].input) IN
                /\ heap' = r.heap
                /\ automaton'[a] = r.out
                /\ last'.after = r.heap[r.out].val
                /\ last'.calls = 1

ExitGuard(m) ==
    CASE m.type = "Working" -> m.hours_worked = 4 \/ m.hours_worked >= 8
      [] m.type = "Eating" -> m.calories_consumed >= 500
      [] m.type = "Sleeping" -> m.hours_rested >= 8

StayOrLeaveStep ==
    \A a \in Autos :
        NextEnd(a) =>
            LET m == heap[inflight[a].mode].val
                n == heap'[automaton'[a]].val
            IN IF ExitGuard(m) THEN n.type # m.type ELSE n = m

\* C15: a next call leaves the automaton in the same mode type with every
\* field unchanged when the exit guard of its mode is false, and changes the
\* mode type when the guard is true.
StayOrLeave == [][StayOrLeaveStep]_vars

\* A next on Eating(8, 400), one helping short of the guard, has stayed.
StayOrLeaveWitness ==
    /\ last.op = "next" /\ last.auto = "rc"
    /\ last.before = Eating(8, 400) /\ last.after = Eating(8, 400)
    /\ ModeOf("rc") = Eating(8, 400) /\ pc["rc"] = "idle"

\* The type of the mode that iteration k of the loop starts in, by the
\* breakdown 4 Working, 5 Eating, 4 Working, 5 Eating, 8 Sleeping, 5 Eating.
Leg(k) ==
    LET j == ((k - 1) % 31) + 1 IN
    IF j <= 4 THEN "Working"
    ELSE IF j <= 9 THEN "Eating"
    ELSE IF j <= 13 THEN "Working"
    ELSE IF j <= 18 THEN "Eating"
    ELSE IF j <= 26 THEN "Sleeping"
    ELSE "Eating"

\* The loop is still counting its iterations.
Counting == age + 1 < LastAge

ActiveType(t) == pc["boxed"] = "idle" /\ ModeOf("boxed").type = t

Within(m, lim) ==
    CASE m.type = "Working" -> m.hours_worked <= lim[1]
      [] m.type = "Eating" ->
            /\ m.hours_worked <= lim[1]
            /\ m.calories_consumed % 100 = 0
            /\ m.calories_consumed <= lim[2]
      [] m.type = "Sleeping" -> m.hours_rested <= lim[3]
      [] OTHER -> TRUE

\* C17: in every state of the update-then-next loop from Working(0),
\* hours_worked is at most 8, calories_consumed is a multiple of 100 and at
\* most 500, and hours_rested is at most 8; right after each next, Working
\* has at most 7 hours, Eating at most 400 calories, Sleeping at most 7 hours.
CountersBounded ==
    /\ \A c \in Cells : Live(heap, c) => Within(heap[c].val, <<8, 500, 8>>)
    /\ last.op = "next" =>
          /\ last.after.type = "Working" => last.after.hours_worked <= 7
          /\ last.after.type = "Eating" => last.after.calories_consumed <= 400
          /\ last.after.type = "Sleeping" => last.after.hours_rested <= 7

\* In cycle 31 the update of Eating(0, 400) has brought the calories to
\* their limit of 500, before the next that leaves Eating.
CountersBoundedWitness ==
    /\ Cycle = 31 /\ last.op = "update"
    /\ last.before = Eating(0, 400) /\ ModeOf("boxed") = Eating(0, 500)

\* The mode automaton a had after its latest with_mode or update is an
\* Eating with 4 hours worked that is due to leave.
LunchOver(a) ==
    /\ anchor[a].type = "Eating"
    /\ anchor[a].hours_worked = 4 /\ anchor[a].calories_consumed >= 500

BackToLunchStep ==
    \A a \in Autos :
        NextEnd(a) =>
            LET m == heap[inflight[a].mode].val
                n == heap'[automaton'[a]].val
            IN /\ m = Working(4) => n = Eating(4, 0)
               /\ m = Working(5) => n = Working(5)
               /\ LunchOver(a) /\ streak[a] = 0 => m = anchor[a] /\ n = Working(4)
               /\ LunchOver(a) /\ streak[a] = 1 => m = Working(4) /\ n = Eating(4, 0)

\* C18: a next on Working(4) installs Eating(4, 0) however Working(4) was
\* entered: after Eating(4, calories >= 500) the first next installs
\* Working(4) and a second next with no update in between installs
\* Eating(4, 0); after an update, on Working(5), the next stays in Working.
BackToLunch == [][BackToLunchStep]_vars

\* Two next calls in a row on the exclusive automaton from Eating(4, 500):
\* the second has taken Working(4) back to Eating(4, 0).
BackToLunchWitness ==
    /\ streak["boxed"] = 2 /\ anchor["boxed"] = Eating(4, 500)
    /\ last.op = "next" /\ last.auto = "boxed" /\ last.before = Working(4)
    /\ ModeOf("boxed") = Eating(4, 0) /\ pc["boxed"] = "idle"

====
